---- MODULE Spec2Model ----
(***************************************************************************)
(* Ownership model of native-windows-gui's Bitmap resource wrapper         *)
(* (src/resources/bitmap.rs): Bitmap::default, Bitmap::builder, the        *)
(* BitmapBuilder setters, BitmapBuilder::build, PartialEq and Drop.        *)
(* The native layer (resources_helper loaders, DeleteObject) is modelled   *)
(* by the handles it hands out and by a count of the release calls made    *)
(* on each handle.                                                         *)
(***************************************************************************)
EXTENDS Integers, Sequences, FiniteSets, TLC

\* ------------------------------------------------------------------ bounds
\* Number of Bitmap variables (wrapper slots) the program uses.
NumWrappers == 2
\* Number of build() calls in one run.
MaxBuilds == 2

\* ------------------------------------------------------- values and inputs
\* ptr::null_mut()
NULL == 0

Wrappers == 1..NumWrappers

\* Option<T>: None is the empty sequence, Some(v) the one-element sequence.
None == << >>
Some(v) == <<v>>

Files == {"Hello.bmp"}
Bins == {<<66, 77>>}
OemBitmaps == {"Close"}
Keys == {<<255, 0, 255>>}
Sizes == {<<32, 32>>}

Opt(S) == {None} \cup {Some(v) : v \in S}

\* Result<HANDLE, NwgError>
Ok(h) == [ok |-> TRUE, handle |-> h]
Err == [ok |-> FALSE, handle |-> NULL]

\* The handle the system hands out for a stock (OEM) bitmap: a shared one,
\* the same for every request of the same resource.
StockHandle(src) == 1
FirstFresh == Cardinality(OemBitmaps) + 1
\* Every handle value a run can see: the stock ones, and at most two fresh
\* ones (loader, transparency step) per build.
Handles == 1..(Cardinality(OemBitmaps) + 2 * MaxBuilds)

\* struct Bitmap { handle, owned }; live tells whether the variable holds a
\* value (it was constructed and not yet dropped).
Bitmap(h, o) == [live |-> TRUE, handle |-> h, owned |-> o]
Gone == [live |-> FALSE, handle |-> NULL, owned |-> FALSE]

\* Faulty variant: the default value claims ownership of the null handle.
DefaultOwned == Bitmap(NULL, TRUE)

\* impl Default for Bitmap
DefaultBitmap == Bitmap(NULL, FALSE)

\* Bitmap::builder()
NewBuilder ==
    [source_text |-> None, source_bin |-> None, source_system |-> None,
     transparency_key |-> None, size |-> None, strict |-> FALSE]

NoCfg == NewBuilder

VARIABLES
    bitmaps,     \* wrapper slot -> Bitmap value (or Gone)
    builder,     \* Option<BitmapBuilder>: the builder value being configured
    released,    \* handle -> number of DeleteObject calls made on it
    nextHandle,  \* the next fresh handle value the system hands out
    builds,      \* number of build() calls so far
    built,       \* wrapper slot -> handles of its successful builds, in order
    leaked,      \* loader handles whose transparency step failed
    last         \* the last operation: its target, inputs, result, native calls

vars == <<bitmaps, builder, released, nextHandle, builds, built, leaked, last>>

\* ----------------------------------------------------------- native layer
Call(fn, arg, ret) == [fn |-> fn, arg |-> arg, ret |-> ret]

LoaderFns == {"build_image", "build_oem_image", "bitmap_from_memory"}

\* rh::build_image / rh::build_image_decoder (file), rh::bitmap_from_memory:
\* fail, or hand out a handle no one else has.
FreshResults(next) == {Err, Ok(next)}

\* rh::build_oem_image: fails, or hands out the shared stock handle.
StockResults(src) == {Err, Ok(StockHandle(src))}

\* rh::make_bitmap_transparent(handle, size, key): fails, or produces a new
\* handle; the input handle is not released by it.
TransparentResults(handle, size, key, next) == {Err, Ok(next)}

\* x as i32, for x: u32 (values above i32::MAX wrap to negative ones)
AsI32(x) == IF x > 2147483647 THEN (x - 2147483647) - 2147483647 - 2 ELSE x

\* The releases a sequence of native calls makes, added to the counts.
RECURSIVE ApplyCalls(_, _)
ApplyCalls(rel, calls) ==
    IF calls = << >> THEN rel
    ELSE LET c == Head(calls)
             r == IF c.fn = "DeleteObject" /\ c.arg \in DOMAIN rel
                  THEN [rel EXCEPT ![c.arg] = @ + 1] ELSE rel
         IN ApplyCalls(r, Tail(calls))

\* ------------------------------------------------------------- pure parts
\* Faulty variant: the owned flag is not consulted.
DropCallsAlways(b) == <<Call("DeleteObject", b.handle, Ok(NULL))>>

\* impl Drop for Bitmap: the native calls dropping value b makes.
DropCalls(b) ==
    IF b.owned THEN <<Call("DeleteObject", b.handle, Ok(NULL))>> ELSE << >>

\* Faulty variant: the stock source is looked at before the file source.
SelectLoaderStockFirst(cfg) ==
    IF cfg.source_system # None THEN "build_oem_image"
    ELSE IF cfg.source_text # None THEN "build_image"
    ELSE IF cfg.source_bin # None THEN "bitmap_from_memory"
    ELSE "none"

\* Faulty variant: with no source set, the memory loader is tried anyway.
SelectLoaderNoError(cfg) ==
    IF cfg.source_text # None THEN "build_image"
    ELSE IF cfg.source_system # None THEN "build_oem_image"
    ELSE "bitmap_from_memory"

\* build(), lines 114-130: which source is loaded.
SelectLoader(cfg) ==
    IF cfg.source_text # None THEN "build_image"
    ELSE IF cfg.source_system # None THEN "build_oem_image"
    ELSE IF cfg.source_bin # None THEN "bitmap_from_memory"
    ELSE "none"

\* The results the selected loader can give.
LoaderResults(loader, cfg, next) ==
    IF loader = "build_oem_image" THEN StockResults(cfg.source_system[1])
    ELSE FreshResults(next)

\* Faulty variant: the loader's result is not checked before the transparency step.
TransparencyInvokedUnchecked(cfg, loaded) ==
    cfg.transparency_key # None

\* build(), lines 132 and 138: the transparency step runs when a key is set
\* and `handle?` does not return early.
TransparencyInvoked(cfg, loaded) ==
    cfg.transparency_key # None /\ loaded.ok

\* build(), lines 133-136: the size handed to the transparency step.
TransparentSize(cfg) ==
    IF cfg.size = None THEN <<0, 0>>
    ELSE <<AsI32(cfg.size[1][1]), AsI32(cfg.size[1][2])>>

\* Faulty variant: a failed transparency step falls back to the loader's handle.
FinalHandleFallback(cfg, loaded, transformed) ==
    IF cfg.transparency_key # None /\ loaded.ok /\ transformed.ok
    THEN transformed
    ELSE loaded

\* build(), lines 132-141: the value of `handle` when line 141 reads it.
FinalHandle(cfg, loaded, transformed) ==
    IF cfg.transparency_key # None
    THEN (IF loaded.ok THEN transformed ELSE loaded)
    ELSE loaded

\* Faulty variant: the built value does not take ownership.
BuiltBitmapUnowned(h) == Bitmap(h, FALSE)

\* build(), line 141: the value constructed for the target.
BuiltBitmap(h) == Bitmap(h, TRUE)

\* build(), line 141: `handle?` returns early on Err and leaves *b alone;
\* otherwise *b is overwritten.
NewTarget(b, final) ==
    IF final.ok THEN BuiltBitmap(final.handle) ELSE b

\* build(), line 141: the assignment `*b = ...` drops the value *b held.
AssignCalls(b, final) ==
    IF final.ok THEN DropCalls(b) ELSE << >>

\* Faulty variant: the derived comparison, over both fields.
eqDerived(self, other) ==
    self.handle = other.handle /\ self.owned = other.owned

\* impl PartialEq for Bitmap
eq(self, other) == self.handle = other.handle

\* ------------------------------------------------------------ the record
Op(op, w, w2, pre, cfg, result, calls) ==
    [op |-> op, w |-> w, w2 |-> w2, pre |-> pre, cfg |-> cfg,
     result |-> result, calls |-> calls]

Idle == Op("none", 0, 0, Gone, NoCfg, "Ok", << >>)

\* ---------------------------------------------------------------- actions
Init ==
    /\ bitmaps = [w \in Wrappers |-> Gone]
    /\ builder = None
    /\ released = [h \in Handles |-> 0]
    /\ nextHandle = FirstFresh
    /\ builds = 0
    /\ built = [w \in Wrappers |-> << >>]
    /\ leaked = {}
    /\ last = Idle

\* let mut b = Bitmap::default();
Default(w) ==
    /\ ~bitmaps[w].live
    /\ bitmaps' = [bitmaps EXCEPT ![w] = DefaultBitmap]
    /\ built' = [built EXCEPT ![w] = << >>]
    /\ last' = Idle
    /\ UNCHANGED <<builder, released, nextHandle, builds, leaked>>

\* Bitmap::builder()
Builder ==
    /\ builds < MaxBuilds
    /\ builder' = Some(NewBuilder)
    /\ last' = Idle
    /\ UNCHANGED <<bitmaps, released, nextHandle, builds, built, leaked>>

SetField(f, v) ==
    /\ builder # None
    /\ builder' = Some([builder[1] EXCEPT ![f] = v])
    /\ last' = Idle
    /\ UNCHANGED <<bitmaps, released, nextHandle, builds, built, leaked>>

source_file == \E t \in Opt(Files) : SetField("source_text", t)
source_bin == \E t \in Opt(Bins) : SetField("source_bin", t)
source_system == \E t \in Opt(OemBitmaps) : SetField("source_system", t)
size == \E s \in Opt(Sizes) : SetField("size", s)
strict == \E s \in BOOLEAN : SetField("strict", s)
transparency_key == \E k \in Opt(Keys) : SetField("transparency_key", k)

\* The end of build(): the target, the counts and the record are updated
\* from the stages that ran.
Finish(w, cfg, final, stageCalls, next) ==
    LET b == bitmaps[w]
        calls == stageCalls \o AssignCalls(b, final)
    IN /\ bitmaps' = [bitmaps EXCEPT ![w] = NewTarget(b, final)]
       /\ released' = ApplyCalls(released, calls)
       /\ nextHandle' = next
       /\ builds' = builds + 1
       /\ builder' = None
       /\ built' = IF final.ok
                   THEN [built EXCEPT ![w] = Append(@, final.handle)]
                   ELSE built
       /\ leaked' = leaked \cup
            {[handle |-> c.ret.handle, loader |-> c.fn] :
                c \in {stageCalls[i] : i \in
                    {j \in 1..Len(stageCalls) :
                        /\ stageCalls[j].fn \in LoaderFns
                        /\ stageCalls[j].ret.ok
                        /\ \E k \in 1..Len(stageCalls) :
                              /\ stageCalls[k].fn = "make_bitmap_transparent"
                              /\ ~stageCalls[k].ret.ok}}}
       /\ last' = Op("build", w, 0, b, cfg,
                     IF final.ok THEN "Ok" ELSE "Err", calls)

Used(res, next) == IF res.ok /\ res.handle = next THEN next + 1 ELSE next

\* BitmapBuilder::build(self, b)
Build(w) ==
    /\ builder # None
    /\ bitmaps[w].live
    /\ builds < MaxBuilds
    /\ LET cfg == builder[1]
           loader == SelectLoader(cfg)
       IN IF loader = "none"
          THEN Finish(w, cfg, Err, << >>, nextHandle)
          ELSE \E loaded \in LoaderResults(loader, cfg, nextHandle) :
                 LET n1 == Used(loaded, nextHandle)
                     c1 == Call(loader, NULL, loaded)
                 IN IF TransparencyInvoked(cfg, loaded)
                    THEN \E transformed \in TransparentResults(
                                loaded.handle, TransparentSize(cfg),
                                cfg.transparency_key[1], n1) :
                           Finish(w, cfg, FinalHandle(cfg, loaded, transformed),
                                  <<c1, Call("make_bitmap_transparent",
                                             loaded.handle, transformed)>>,
                                  Used(transformed, n1))
                    ELSE Finish(w, cfg, FinalHandle(cfg, loaded, Err),
                                <<c1>>, n1)

\* The wrapper goes out of scope: impl Drop for Bitmap.
Drop(w) ==
    /\ bitmaps[w].live
    /\ LET b == bitmaps[w]
           calls == DropCalls(b)
       IN /\ released' = ApplyCalls(released, calls)
          /\ last' = Op("drop", w, 0, b, NoCfg, "Ok", calls)
    /\ bitmaps' = [bitmaps EXCEPT ![w] = Gone]
    /\ UNCHANGED <<builder, nextHandle, builds, built, leaked>>

\* a == b
Eq(w, w2) ==
    /\ bitmaps[w].live /\ bitmaps[w2].live
    /\ last' = Op("eq", w, w2, bitmaps[w], NoCfg,
                  IF eq(bitmaps[w], bitmaps[w2]) THEN "true" ELSE "false",
                  << >>)
    /\ UNCHANGED <<bitmaps, builder, released, nextHandle, builds, built, leaked>>

Next ==
    \/ \E w \in Wrappers : Default(w)
    \/ Builder
    \/ source_file
    \/ source_bin
    \/ source_system
    \/ size
    \/ strict
    \/ transparency_key
    \/ \E w \in Wrappers : Build(w)
    \/ \E w \in Wrappers : Drop(w)

Spec == Init /\ [][Next]_vars

\* Equality as a pure function of two Bitmap values: the values are drawn
\* from every (handle, owned) pair the type allows (handle is a pub field).
EqHandles == {NULL, 1, 2}

InitEq ==
    /\ bitmaps \in [Wrappers -> {Bitmap(h, o) : h \in EqHandles, o \in BOOLEAN}]
    /\ builder = None
    /\ released = [h \in Handles |-> 0]
    /\ nextHandle = FirstFresh
    /\ builds = 0
    /\ built = [w \in Wrappers |-> << >>]
    /\ leaked = {}
    /\ last = Idle

NextEq == \E w, w2 \in Wrappers : Eq(w, w2)

SpecEq == InitEq /\ [][NextEq]_vars

\* ------------------------------------------------------------ properties
Range(f) == {f[i] : i \in DOMAIN f}
Last(q) == q[Len(q)]

IsLoaderCall(c) == c.fn \in LoaderFns
IsTransparencyCall(c) == c.fn = "make_bitmap_transparent"
IsReleaseCall(c) == c.fn = "DeleteObject"
IsStageCall(c) == ~IsReleaseCall(c)
LoaderCallsOf(calls) == SelectSeq(calls, IsLoaderCall)
TransparencyCallsOf(calls) == SelectSeq(calls, IsTransparencyCall)
ReleaseCallsOf(calls) == SelectSeq(calls, IsReleaseCall)
StageCallsOf(calls) == SelectSeq(calls, IsStageCall)

NoSource(cfg) ==
    cfg.source_text = None /\ cfg.source_system = None /\ cfg.source_bin = None

LoaderFailed(calls) == \E c \in Range(LoaderCallsOf(calls)) : ~c.ret.ok
TransparencyFailed(calls) == \E c \in Range(TransparencyCallsOf(calls)) : ~c.ret.ok

\* C1: every native handle is released at most once, and no handle value is
\* held at the same time by two live wrappers that both have owned = true
\* (handles of the stock loader included).
C1_ExclusiveOwnership ==
    /\ \A h \in Handles : released[h] <= 1
    /\ \A w1, w2 \in Wrappers :
          (/\ w1 # w2
           /\ bitmaps[w1].live /\ bitmaps[w1].owned
           /\ bitmaps[w2].live /\ bitmaps[w2].owned)
          => bitmaps[w1].handle # bitmaps[w2].handle

\* C2: dropping a wrapper with owned = false makes no release call; dropping
\* one with owned = true makes exactly one, on the wrapper's own handle.
C2_DropReleasesIffOwned ==
    last.op = "drop" =>
        /\ bitmaps[last.w] = Gone
        /\ StageCallsOf(last.calls) = << >>
        /\ IF last.pre.owned
           THEN /\ Len(last.calls) = 1
                /\ last.calls[1].fn = "DeleteObject"
                /\ last.calls[1].arg = last.pre.handle
                /\ released[last.pre.handle] >= 1
           ELSE last.calls = << >>

C2_Witness ==
    /\ last.op = "drop"
    /\ last.pre.owned
    /\ last.pre.handle # NULL
    /\ released[last.pre.handle] = 1

\* C3: with none of the three sources set, whatever size, transparency key
\* and strict are, build returns an error, makes no native call (loader,
\* transparency step, release) and leaves the target as it was.
C3_NoSourceIsConfigurationError ==
    (last.op = "build" /\ NoSource(last.cfg)) =>
        /\ last.result = "Err"
        /\ last.calls = << >>
        /\ bitmaps[last.w] = last.pre

C3_Witness ==
    /\ last.op = "build"
    /\ NoSource(last.cfg)
    /\ last.cfg.size # None
    /\ last.cfg.transparency_key # None
    /\ last.cfg.strict
    /\ last.pre.owned
    /\ last.result = "Err"

\* The loader the priority order file > system stock > memory bytes names.
ByPriority(cfg) ==
    CASE cfg.source_text # None -> "build_image"
      [] cfg.source_text = None /\ cfg.source_system # None -> "build_oem_image"
      [] cfg.source_text = None /\ cfg.source_system = None -> "bitmap_from_memory"

\* C4: a build with a source set invokes exactly one loader, the one the
\* priority order file > system stock > memory bytes names, as its first
\* native call; a lower-priority source that is also set is never loaded,
\* also when the loader fails. (With no source set there is nothing to choose
\* and no loader is invoked.)
C4_OneLoaderByPriority ==
    last.op = "build" =>
        IF NoSource(last.cfg)
        THEN LoaderCallsOf(last.calls) = << >>
        ELSE /\ Len(LoaderCallsOf(last.calls)) = 1
             /\ LoaderCallsOf(last.calls)[1].fn = ByPriority(last.cfg)
             /\ last.calls[1] = LoaderCallsOf(last.calls)[1]

C4_Witness ==
    /\ last.op = "build"
    /\ last.cfg.source_text # None
    /\ last.cfg.source_system # None
    /\ last.cfg.source_bin # None
    /\ last.result = "Err"
    /\ Len(last.calls) = 1
    /\ last.calls[1].fn = "build_image"

\* C5: whenever build returns success, for any source kind, the target has
\* owned = true and its handle is the one returned by the last stage that
\* ran: the transparency step when a key was supplied, otherwise the loader.
C5_SuccessOwnsLastStageHandle ==
    (last.op = "build" /\ last.result = "Ok") =>
        LET stages == StageCallsOf(last.calls)
        IN /\ stages # << >>
           /\ Last(stages).ret.ok
           /\ Last(stages).fn =
                 (IF last.cfg.transparency_key # None
                  THEN "make_bitmap_transparent" ELSE ByPriority(last.cfg))
           /\ bitmaps[last.w].live
           /\ bitmaps[last.w].owned
           /\ bitmaps[last.w].handle = Last(stages).ret.handle

C5_Witness ==
    /\ last.op = "build"
    /\ last.result = "Ok"
    /\ last.cfg.source_text = None
    /\ last.cfg.source_system # None
    /\ last.cfg.transparency_key = None
    /\ bitmaps[last.w].owned
    /\ bitmaps[last.w].handle = StockHandle(last.cfg.source_system[1])

\* C6: two wrappers compare equal if and only if their handle values are
\* identical; the owned flag plays no part.
C6_EqualIffSameHandle ==
    last.op = "eq" =>
        ((last.result = "true") <=>
            (bitmaps[last.w].handle = bitmaps[last.w2].handle))

C6_Witness ==
    /\ last.op = "eq"
    /\ last.w # last.w2
    /\ bitmaps[last.w].handle = bitmaps[last.w2].handle
    /\ bitmaps[last.w].handle # NULL
    /\ bitmaps[last.w].owned # bitmaps[last.w2].owned
    /\ last.result = "true"

\* C7: when the selected loader or the transparency step fails, build
\* returns an error, the target keeps its handle and owned flag, nothing is
\* released, and after a failed loader the transparency step is not invoked
\* even with a key supplied.
C7_FailureLeavesTarget ==
    (last.op = "build"
        /\ (LoaderFailed(last.calls) \/ TransparencyFailed(last.calls))) =>
        /\ last.result = "Err"
        /\ bitmaps[last.w] = last.pre
        /\ ReleaseCallsOf(last.calls) = << >>
        /\ LoaderFailed(last.calls) => TransparencyCallsOf(last.calls) = << >>

C7_Witness ==
    /\ last.op = "build"
    /\ LoaderFailed(last.calls)
    /\ last.cfg.transparency_key # None
    /\ last.pre.owned
    /\ last.result = "Err"
    /\ released[last.pre.handle] = 0

\* A build whose loader succeeded and whose transparency step failed returns
\* an error and makes no release call for the loader's handle.
FailedTransformReleasesNothing ==
    (last.op = "build" /\ TransparencyFailed(last.calls)) =>
        /\ last.result = "Err"
        /\ \A c \in Range(ReleaseCallsOf(last.calls)) :
              c.arg # LoaderCallsOf(last.calls)[1].ret.handle

\* Handle l.handle is held by no live wrapper and was never released.
Abandoned(l) ==
    /\ released[l.handle] = 0
    /\ \A w \in Wrappers : ~(bitmaps[w].live /\ bitmaps[w].handle = l.handle)

\* C8 as stated: when the loader succeeds, a key is supplied and the
\* transparency step fails, build returns an error without releasing the
\* loader's handle, and that handle is held by no wrapper afterwards and is
\* never released by a later build or drop.
C8_LoaderHandleAbandoned ==
    /\ FailedTransformReleasesNothing
    /\ \A l \in leaked : Abandoned(l)

\* C8 amended: the same, for a handle of the file or the memory loader (the
\* stock loader's handle is shared, so another build may hold and release it).
C8_FreshLoaderHandleAbandoned ==
    /\ FailedTransformReleasesNothing
    /\ \A l \in leaked : l.loader # "build_oem_image" => Abandoned(l)

C8_Witness ==
    /\ last.op = "drop"
    /\ last.pre.owned
    /\ \E l \in leaked : l.loader # "build_oem_image" /\ l.handle < last.pre.handle

\* C9: every live wrapper is Empty (null handle, owned = false) or Loaded
\* (owned = true, holding the handle its last successful build produced);
\* Borrowed (non-null handle, owned = false) is never reached, and no wrapper
\* is owned without a successful build onto it.
C9_EmptyOrLoaded ==
    \A w \in Wrappers : bitmaps[w].live =>
        \/ /\ bitmaps[w].handle = NULL
           /\ ~bitmaps[w].owned
        \/ /\ bitmaps[w].owned
           /\ built[w] # << >>
           /\ bitmaps[w].handle = Last(built[w])

C9_Witness ==
    \E w1, w2 \in Wrappers :
        /\ bitmaps[w1].live /\ bitmaps[w1].owned /\ Len(built[w1]) = 2
        /\ bitmaps[w2].live /\ ~bitmaps[w2].owned /\ bitmaps[w2].handle = NULL

\* C10: a successful build on a Loaded target releases the previous handle
\* exactly once, as its last native call (after the new handle is obtained);
\* on an Empty target it releases nothing; so when a wrapper is dropped after
\* a sequence of successful builds, the only wrapper built on, every handle it
\* ever held has been released exactly once.
C10_EveryHeldHandleReleasedOnce ==
    /\ (last.op = "build" /\ last.result = "Ok") =>
          IF last.pre.owned
          THEN /\ Len(ReleaseCallsOf(last.calls)) = 1
               /\ Last(last.calls).fn = "DeleteObject"
               /\ Last(last.calls).arg = last.pre.handle
               /\ \A c \in Range(StageCallsOf(last.calls)) : c.ret.ok
          ELSE ReleaseCallsOf(last.calls) = << >>
    /\ (last.op = "drop"
          /\ \A w \in Wrappers \ {last.w} : built[w] = << >>) =>
          \A h \in Range(built[last.w]) : released[h] = 1
====
